---- MODULE Spec2Model ----
(***************************************************************************)
(* Client-side transaction store of the expense tracker                    *)
(* (src/function/src/App.jsx): the reducer, the four asynchronous          *)
(* operations of GlobalProvider, the edit slot and the draft buffer of     *)
(* AddTransaction, together with the remote API they talk to.              *)
(***************************************************************************)
EXTENDS Integers, Sequences, FiniteSets, TLC

VARIABLES
  state,     \* the useReducer state: transactions, error, loading, editing
  draft,     \* AddTransaction's useState triple: text, amount, category
  calls,     \* every axios call issued so far, in issue order
  db,        \* the server's collection
  nextId,    \* the next id the server assigns
  mounted,   \* GlobalProvider's mount effect has run
  view,      \* what Balance, IncomeExpenses and SpendingChart rendered
  last       \* the step taken last (history, read by the properties only)

vars == <<state, draft, calls, db, nextId, mounted, view, last>>

\* ---------------------------------------------------------------- bounds
MaxCalls == 3

\* ------------------------------------------------------------ JS values
\* null / "no value" is the empty tuple, a present value v is <<v>>
Null == <<>>
Some(v) == <<v>>
Undefined == "undefined"

\* what the user types into the form and picks in the dropdown
Texts == {"a"}
Amounts == {-2}
CategoryIds == {"Food", "Rent", "Utilities", "Entertainment", "Health", "Salary", "Other"}
DraftCategories == {"Other"}

initialState ==
  [transactions |-> <<>>, error |-> "null", loading |-> TRUE, editing |-> Null]

emptyDraft == [text |-> "", amount |-> Null, category |-> "Other"]

transactions == state.transactions
editing == state.editing
error == state.error
loading == state.loading

\* ------------------------------------------------------- list helpers
RECURSIVE Filter(_, _)
Filter(s, id) ==
  IF s = <<>> THEN <<>>
  ELSE IF Head(s)._id # id THEN <<Head(s)>> \o Filter(Tail(s), id)
       ELSE Filter(Tail(s), id)

Map(s, p) == [i \in 1..Len(s) |-> IF s[i]._id = p._id THEN p ELSE s[i]]

Ids(s) == {s[i]._id : i \in 1..Len(s)}

\* ------------------------------------------------------------- reducer
\* a reducer whose error case resets the list and the edit slot
AppReducer_ErrorResets(st, action) ==
  CASE action.type = "GET_TRANSACTIONS" ->
         [st EXCEPT !.loading = FALSE, !.transactions = action.payload]
    [] action.type = "DELETE_TRANSACTION" ->
         [st EXCEPT !.transactions = Filter(st.transactions, action.payload)]
    [] action.type = "ADD_TRANSACTION" ->
         [st EXCEPT !.transactions = Append(st.transactions, action.payload)]
    [] action.type = "UPDATE_TRANSACTION" ->
         [st EXCEPT !.transactions = Map(st.transactions, action.payload),
                    !.editing = Null]
    [] action.type = "SET_EDITING" ->
         [st EXCEPT !.editing = action.payload]
    [] action.type = "TRANSACTION_ERROR" ->
         [st EXCEPT !.error = action.payload, !.transactions = <<>>,
                    !.editing = Null]
    [] OTHER -> st

\* a reducer whose update case leaves the edit slot filled
AppReducer_UpdateKeepsEditing(st, action) ==
  CASE action.type = "GET_TRANSACTIONS" ->
         [st EXCEPT !.loading = FALSE, !.transactions = action.payload]
    [] action.type = "DELETE_TRANSACTION" ->
         [st EXCEPT !.transactions = Filter(st.transactions, action.payload)]
    [] action.type = "ADD_TRANSACTION" ->
         [st EXCEPT !.transactions = Append(st.transactions, action.payload)]
    [] action.type = "UPDATE_TRANSACTION" ->
         [st EXCEPT !.transactions = Map(st.transactions, action.payload)]
    [] action.type = "SET_EDITING" ->
         [st EXCEPT !.editing = action.payload]
    [] action.type = "TRANSACTION_ERROR" ->
         [st EXCEPT !.error = action.payload]
    [] OTHER -> st

\* a reducer whose update case inserts the payload when no entry has its id
AppReducer_Upsert(st, action) ==
  CASE action.type = "GET_TRANSACTIONS" ->
         [st EXCEPT !.loading = FALSE, !.transactions = action.payload]
    [] action.type = "DELETE_TRANSACTION" ->
         [st EXCEPT !.transactions = Filter(st.transactions, action.payload)]
    [] action.type = "ADD_TRANSACTION" ->
         [st EXCEPT !.transactions = Append(st.transactions, action.payload)]
    [] action.type = "UPDATE_TRANSACTION" ->
         [st EXCEPT !.transactions =
                      IF action.payload._id \in Ids(st.transactions)
                      THEN Map(st.transactions, action.payload)
                      ELSE Append(st.transactions, action.payload),
                    !.editing = Null]
    [] action.type = "SET_EDITING" ->
         [st EXCEPT !.editing = action.payload]
    [] action.type = "TRANSACTION_ERROR" ->
         [st EXCEPT !.error = action.payload]
    [] OTHER -> st

\* a reducer whose delete case splices at indexOf(id): with the id absent
\* (index -1) it drops the last entry
AppReducer_Splice(st, action) ==
  CASE action.type = "GET_TRANSACTIONS" ->
         [st EXCEPT !.loading = FALSE, !.transactions = action.payload]
    [] action.type = "DELETE_TRANSACTION" ->
         [st EXCEPT !.transactions =
                      IF action.payload \in Ids(st.transactions)
                      THEN Filter(st.transactions, action.payload)
                      ELSE SubSeq(st.transactions, 1, Len(st.transactions) - 1)]
    [] action.type = "ADD_TRANSACTION" ->
         [st EXCEPT !.transactions = Append(st.transactions, action.payload)]
    [] action.type = "UPDATE_TRANSACTION" ->
         [st EXCEPT !.transactions = Map(st.transactions, action.payload),
                    !.editing = Null]
    [] action.type = "SET_EDITING" ->
         [st EXCEPT !.editing = action.payload]
    [] action.type = "TRANSACTION_ERROR" ->
         [st EXCEPT !.error = action.payload]
    [] OTHER -> st

AppReducer_NewestIssued(st, action) ==
  CASE action.type = "GET_TRANSACTIONS" ->
         [st EXCEPT !.loading = FALSE, !.transactions = action.payload]
    [] action.type = "DELETE_TRANSACTION" ->
         [st EXCEPT !.transactions = Filter(st.transactions, action.payload)]
    [] action.type = "ADD_TRANSACTION" ->
         [st EXCEPT !.transactions = Append(st.transactions, action.payload)]
    [] action.type = "UPDATE_TRANSACTION" ->
         [st EXCEPT !.transactions =
                      [i \in 1..Len(st.transactions) |->
                         IF /\ st.transactions[i]._id = action.payload._id
                            /\ st.transactions[i].ref < action.payload.ref
                         THEN action.payload ELSE st.transactions[i]],
                    !.editing = Null]
    [] action.type = "SET_EDITING" ->
         [st EXCEPT !.editing = action.payload]
    [] action.type = "TRANSACTION_ERROR" ->
         [st EXCEPT !.error = action.payload]
    [] OTHER -> st

AppReducer_ListClearsEditing(st, action) ==
  CASE action.type = "GET_TRANSACTIONS" ->
         [st EXCEPT !.loading = FALSE, !.transactions = action.payload,
                    !.editing = Null]
    [] action.type = "DELETE_TRANSACTION" ->
         [st EXCEPT !.transactions = Filter(st.transactions, action.payload)]
    [] action.type = "ADD_TRANSACTION" ->
         [st EXCEPT !.transactions = Append(st.transactions, action.payload)]
    [] action.type = "UPDATE_TRANSACTION" ->
         [st EXCEPT !.transactions = Map(st.transactions, action.payload),
                    !.editing = Null]
    [] action.type = "SET_EDITING" ->
         [st EXCEPT !.editing = action.payload]
    [] action.type = "TRANSACTION_ERROR" ->
         [st EXCEPT !.error = action.payload]
    [] OTHER -> st

AppReducer_DeleteClearsEditing(st, action) ==
  CASE action.type = "GET_TRANSACTIONS" ->
         [st EXCEPT !.loading = FALSE, !.transactions = action.payload]
    [] action.type = "DELETE_TRANSACTION" ->
         [st EXCEPT !.transactions = Filter(st.transactions, action.payload),
                    !.editing = IF /\ st.editing # Null
                                    /\ st.editing[1]._id = action.payload
                                 THEN Null ELSE st.editing]
    [] action.type = "ADD_TRANSACTION" ->
         [st EXCEPT !.transactions = Append(st.transactions, action.payload)]
    [] action.type = "UPDATE_TRANSACTION" ->
         [st EXCEPT !.transactions = Map(st.transactions, action.payload),
                    !.editing = Null]
    [] action.type = "SET_EDITING" ->
         [st EXCEPT !.editing = action.payload]
    [] action.type = "TRANSACTION_ERROR" ->
         [st EXCEPT !.error = action.payload]
    [] OTHER -> st

AppReducer_Prepend(st, action) ==
  CASE action.type = "GET_TRANSACTIONS" ->
         [st EXCEPT !.loading = FALSE, !.transactions = action.payload]
    [] action.type = "DELETE_TRANSACTION" ->
         [st EXCEPT !.transactions = Filter(st.transactions, action.payload)]
    [] action.type = "ADD_TRANSACTION" ->
         [st EXCEPT !.transactions = <<action.payload>> \o st.transactions]
    [] action.type = "UPDATE_TRANSACTION" ->
         [st EXCEPT !.transactions = Map(st.transactions, action.payload),
                    !.editing = Null]
    [] action.type = "SET_EDITING" ->
         [st EXCEPT !.editing = action.payload]
    [] action.type = "TRANSACTION_ERROR" ->
         [st EXCEPT !.error = action.payload]
    [] OTHER -> st

AppReducer(st, action) ==
  CASE action.type = "GET_TRANSACTIONS" ->
         [st EXCEPT !.loading = FALSE, !.transactions = action.payload]
    [] action.type = "DELETE_TRANSACTION" ->
         [st EXCEPT !.transactions = Filter(st.transactions, action.payload)]
    [] action.type = "ADD_TRANSACTION" ->
         [st EXCEPT !.transactions = Append(st.transactions, action.payload)]
    [] action.type = "UPDATE_TRANSACTION" ->
         [st EXCEPT !.transactions = Map(st.transactions, action.payload),
                    !.editing = Null]
    [] action.type = "SET_EDITING" ->
         [st EXCEPT !.editing = action.payload]
    [] action.type = "TRANSACTION_ERROR" ->
         [st EXCEPT !.error = action.payload]
    [] OTHER -> st

RECURSIVE Dispatch(_, _)
Dispatch(st, actions) ==
  IF actions = <<>> THEN st
  ELSE Dispatch(AppReducer(st, Head(actions)), Tail(actions))

\* ----------------------------------------------------------- remote API
\* The server side (routes/transactions) is not part of the sources; it is
\* modelled from the interface table: list returns the collection, create
\* stores the draft under a fresh id, update rewrites the stored fields of
\* an existing id, delete drops the id.
Record(id, data) ==
  [_id |-> id, text |-> data.text, amount |-> data.amount, category |-> data.category]

InitialDbs ==
  { <<>>,
    << Record(1, [text |-> "a", amount |-> -2, category |-> "Food"]),
       Record(2, [text |-> "a", amount |-> -2, category |-> Undefined]) >> }

\* the history of a step no property looks at; otherwise
\* kind: the handler that ran; for a settled call: its number, operation and
\* id, whether it succeeded, whether its id was absent from the list, and the
\* types it dispatched; edId: the id in the edit slot when a call is issued
\* by submit or settled; snap
\* and after: the list before a start edit, and the step a cancel followed
\* (for a submit: whether it followed the delete of the edited transaction)
NoStep == [kind |-> "none", op |-> "", cid |-> 0, id |-> 0, ok |-> FALSE,
           absent |-> FALSE, types |-> <<>>, edId |-> 0, snap |-> <<>>,
           after |-> ""]

NoData == [text |-> "", amount |-> 0, category |-> ""]

\* an axios call: "sent" until the server has handled it, "ok" while its 2xx
\* response travels back, "done" once the awaiting function has resumed (nothing of a
\* finished call is looked at again but the number of its dispatches)
Call(op, id, data) ==
  [op |-> op, id |-> id, data |-> data, stage |-> "sent",
   payload |-> <<>>, dispatched |-> 0]

Updated(rec, data) ==
  [rec EXCEPT !.text = data.text, !.amount = data.amount, !.category = data.category]

Lookup(s, id) == s[CHOOSE i \in 1..Len(s) : s[i]._id = id]

ServerHandle(c) ==
  /\ c \in 1..Len(calls)
  /\ calls[c].stage = "sent"
  /\ LET call == calls[c] IN
     \/ /\ call.op = "list"
        /\ calls' = [calls EXCEPT ![c].stage = "ok", ![c].payload = db]
        /\ UNCHANGED <<db, nextId>>
     \/ /\ call.op = "create"
        /\ calls' = [calls EXCEPT ![c].stage = "ok",
                                  ![c].payload = <<Record(nextId, call.data)>>]
        /\ db' = Append(db, Record(nextId, call.data))
        /\ nextId' = nextId + 1
     \/ /\ call.op = "remove"
        /\ calls' = [calls EXCEPT ![c].stage = "ok"]
        /\ db' = Filter(db, call.id)
        /\ UNCHANGED nextId
     \/ /\ call.op = "update"
        /\ call.id \in Ids(db)
        /\ LET rec == Updated(Lookup(db, call.id), call.data) IN
           /\ calls' = [calls EXCEPT ![c].stage = "ok", ![c].payload = <<rec>>]
           /\ db' = Map(db, rec)
        /\ UNCHANGED nextId
  /\ last' = NoStep
  /\ UNCHANGED <<state, draft, mounted, view>>

\* ----------------------------------------------------------- sync layer
\* the object axios parses out of a response body; ref tells apart two
\* objects with equal fields that came from different responses
Obj(rec, cid) ==
  [_id |-> rec._id, text |-> rec.text, amount |-> rec.amount,
   category |-> rec.category, ref |-> cid]

Objs(recs, cid) == [i \in 1..Len(recs) |-> Obj(recs[i], cid)]

\* how an await can settle: the 2xx response, a non-2xx response whose body
\* has the error field ("msg") or lacks it ("nofield"), or no response at all
Failures == {"msg", "nofield", "noresponse"}

\* err.response?.data?.error
ErrorField(outcome) ==
  IF outcome = "msg" THEN "Server Error" ELSE Undefined

\* what each async function dispatches once its await settles
getTransactions(cid, call, outcome) ==
  IF outcome = "ok"
  THEN <<[type |-> "GET_TRANSACTIONS", payload |-> Objs(call.payload, cid)]>>
  ELSE <<[type |-> "TRANSACTION_ERROR", payload |-> ErrorField(outcome)]>>

\* a deleteTransaction whose catch block dispatches nothing
deleteTransaction_Swallow(cid, call, outcome) ==
  IF outcome = "ok"
  THEN <<[type |-> "DELETE_TRANSACTION", payload |-> call.id]>>
  ELSE <<>>

deleteTransaction(cid, call, outcome) ==
  IF outcome = "ok"
  THEN <<[type |-> "DELETE_TRANSACTION", payload |-> call.id]>>
  ELSE <<[type |-> "TRANSACTION_ERROR", payload |-> ErrorField(outcome)]>>

addTransaction(cid, call, outcome) ==
  IF outcome = "ok"
  THEN <<[type |-> "ADD_TRANSACTION", payload |-> Obj(call.payload[1], cid)]>>
  ELSE <<[type |-> "TRANSACTION_ERROR", payload |-> ErrorField(outcome)]>>

updateTransaction(cid, call, outcome) ==
  IF outcome = "ok"
  THEN <<[type |-> "UPDATE_TRANSACTION", payload |-> Obj(call.payload[1], cid)]>>
  ELSE <<[type |-> "TRANSACTION_ERROR", payload |-> ErrorField(outcome)]>>

Dispatches(cid, call, outcome) ==
  CASE call.op = "list" -> getTransactions(cid, call, outcome)
    [] call.op = "remove" -> deleteTransaction(cid, call, outcome)
    [] call.op = "create" -> addTransaction(cid, call, outcome)
    [] call.op = "update" -> updateTransaction(cid, call, outcome)

\* ------------------------------------------------------- edit coordinator
\* AddTransaction's effect on [editing]: runs when the slot holds another
\* object than at the previous render
SyncDraft_RawCategory(oldEditing, newEditing, d) ==
  IF newEditing = oldEditing THEN d
  ELSE IF newEditing # Null
       THEN [text |-> newEditing[1].text,
             amount |-> Some(newEditing[1].amount),
             category |-> newEditing[1].category]
       ELSE emptyDraft

SyncDraft(oldEditing, newEditing, d) ==
  IF newEditing = oldEditing THEN d
  ELSE IF newEditing # Null
       THEN [text |-> newEditing[1].text,
             amount |-> Some(newEditing[1].amount),
             category |-> IF newEditing[1].category \in {Undefined, ""}
                          THEN "Other" ELSE newEditing[1].category]
       ELSE emptyDraft

EdId(e) == IF e = Null THEN 0 ELSE e[1]._id

\* the continuation of an async function after its await has settled
Settle(c, outcome) ==
  LET ds == Dispatches(c, calls[c], outcome)
      st == Dispatch(state, ds) IN
  /\ state' = st
  /\ draft' = SyncDraft(state.editing, st.editing, draft)
  /\ calls' = [calls EXCEPT ![c].stage = "done", ![c].payload = <<>>,
                            ![c].data = NoData, ![c].id = 0, ![c].op = "",
                            ![c].dispatched = calls[c].dispatched + Len(ds)]
  /\ last' = [NoStep EXCEPT !.kind = "settle", !.op = calls[c].op, !.cid = c,
                        !.id = calls[c].id, !.ok = (outcome = "ok"),
                        !.absent = calls[c].id \notin Ids(transactions),
                        !.types = [i \in 1..Len(ds) |-> ds[i].type],
                        !.edId = EdId(editing)]
  /\ UNCHANGED <<db, nextId, mounted, view>>

\* the 2xx response arrives
Resolve(c) ==
  /\ c \in 1..Len(calls)
  /\ calls[c].stage = "ok"
  /\ Settle(c, "ok")

\* the call fails: the server answers non-2xx (it then changed nothing), or
\* the request or the response is lost
Reject(c, e) ==
  /\ c \in 1..Len(calls)
  /\ e \in Failures
  /\ \/ calls[c].stage = "sent"
     \/ calls[c].stage = "ok" /\ e = "noresponse"
  /\ Settle(c, e)

\* useEffect(() => { getTransactions(); }, [])
Mount ==
  /\ ~mounted
  /\ mounted' = TRUE
  /\ calls' = Append(calls, Call("list", 0, NoData))
  /\ last' = NoStep
  /\ UNCHANGED <<state, draft, db, nextId, view>>

\* the trash button of a list row
ClickDelete(i) ==
  /\ mounted
  /\ i \in 1..Len(transactions)
  /\ Len(calls) < MaxCalls
  /\ calls' = Append(calls, Call("remove", transactions[i]._id, NoData))
  /\ last' = NoStep
  /\ UNCHANGED <<state, draft, db, nextId, mounted, view>>

setEditing(transaction) == <<[type |-> "SET_EDITING", payload |-> transaction]>>

\* the pencil button of a list row
StartEdit(i) ==
  /\ mounted
  /\ i \in 1..Len(transactions)
  /\ LET st == Dispatch(state, setEditing(Some(transactions[i]))) IN
     /\ state' = st
     /\ draft' = SyncDraft(state.editing, st.editing, draft)
  /\ last' = [NoStep EXCEPT !.kind = "startEdit", !.snap = transactions]
  /\ UNCHANGED <<calls, db, nextId, mounted, view>>

\* a cancelEdit that resets the form but leaves the edit slot
cancelEdit_KeepsSlot == [actions |-> <<>>, draft |-> emptyDraft]

\* cancelEdit: setEditing(null), then the three setters
cancelEdit == [actions |-> setEditing(Null), draft |-> emptyDraft]

CancelEdit ==
  /\ mounted
  /\ editing # Null
  /\ LET st == Dispatch(state, cancelEdit.actions) IN
     /\ state' = st
     /\ draft' = SyncDraft(state.editing, st.editing, cancelEdit.draft)
  /\ last' = [NoStep EXCEPT !.kind = "cancelEdit",
                          !.after = IF last.kind = "startEdit" THEN "startEdit" ELSE "",
                          !.snap = IF last.kind = "startEdit" THEN last.snap ELSE <<>>]
  /\ UNCHANGED <<calls, db, nextId, mounted, view>>

\* typing into the form
SetDraft(d) ==
  /\ mounted
  /\ d # draft
  /\ draft' = d
  /\ last' = NoStep
  /\ UNCHANGED <<state, calls, db, nextId, mounted, view>>

setText(t) == SetDraft([draft EXCEPT !.text = t])
setAmount(a) == SetDraft([draft EXCEPT !.amount = Some(a)])
setCategory(c) == SetDraft([draft EXCEPT !.category = c])

\* unary plus on the amount field
ToNumber(a) == IF a = Null THEN 0 ELSE a[1]

\* an onSubmit that takes the create branch whatever the edit slot holds
onSubmit_AlwaysCreate(e, d) ==
  Call("create", 0,
       [text |-> d.text, amount |-> ToNumber(d.amount), category |-> d.category])

\* the call onSubmit issues
onSubmit(e, d) ==
  LET data == [text |-> d.text, amount |-> ToNumber(d.amount), category |-> d.category] IN
  IF e # Null THEN Call("update", e[1]._id, data) ELSE Call("create", 0, data)

\* the form's submit; the two inputs are `required`
OnSubmit ==
  /\ mounted
  /\ draft.text # ""
  /\ draft.amount # Null
  /\ Len(calls) < MaxCalls
  /\ calls' = Append(calls, onSubmit(editing, draft))
  /\ draft' = emptyDraft
  /\ last' = [NoStep EXCEPT !.kind = "submit", !.cid = Len(calls) + 1,
                          !.edId = EdId(editing),
                          !.after = IF /\ last.kind = "settle" /\ last.ok
                                       /\ last.op = "remove"
                                       /\ last.id = EdId(editing)
                                    THEN "removeEdited" ELSE ""]
  /\ UNCHANGED <<state, db, nextId, mounted, view>>

\* ---------------------------------------------------------------- views
\* the longest list the views are rendered over
MaxLen == 3

\* amounts and categories of the transactions the views are rendered over:
\* expenses, a zero, an income; two enumerated categories, a category that
\* is not enumerated, and a record without the field
ViewAmounts == {-20, -10, 0, 50}
ViewCategories == {"Food", "Salary", "Travel", Undefined}

ViewLists ==
  UNION { [1..n -> ViewAmounts \X ViewCategories] : n \in 0..MaxLen }

ViewRecords(l) ==
  [i \in 1..Len(l) |->
     Record(i, [text |-> "a", amount |-> l[i][1], category |-> l[i][2]])]

\* reduce((acc, item) => acc + item.amount, 0)
RECURSIVE SumAmounts(_)
SumAmounts(s) ==
  IF s = <<>> THEN 0
  ELSE SumAmounts(SubSeq(s, 1, Len(s) - 1)) + s[Len(s)].amount

\* Number.prototype.toFixed(2) of an integer: the decimal string with two
\* fraction digits, held as the number of hundredths it denotes
ToFixed2(x) == x * 100

Balance(ts) == ToFixed2(SumAmounts(ts))

IncomeExpenses_NoNegate(ts) ==
  [income  |-> ToFixed2(SumAmounts(SelectSeq(ts, LAMBDA t : t.amount > 0))),
   expense |-> ToFixed2(SumAmounts(SelectSeq(ts, LAMBDA t : t.amount < 0)))]

IncomeExpenses(ts) ==
  [income  |-> ToFixed2(SumAmounts(SelectSeq(ts, LAMBDA t : t.amount > 0))),
   expense |-> ToFixed2(SumAmounts(SelectSeq(ts, LAMBDA t : t.amount < 0)) * (-1))]

Abs(x) == IF x < 0 THEN -x ELSE x

\* curr.category || 'Other'
OrOther(category) == IF category \in {Undefined, ""} THEN "Other" ELSE category

\* acc.find(item => item.name === cat): the index of the first match, 0 if none
Find(acc, cat) ==
  LET hit == {i \in 1..Len(acc) : acc[i].name = cat} IN
  IF hit = {} THEN 0 ELSE CHOOSE i \in hit : \A j \in hit : i <= j

RECURSIVE chartData_Overwrite(_, _)
chartData_Overwrite(acc, s) ==
  IF s = <<>> THEN acc
  ELSE LET curr == Head(s)
           cat == OrOther(curr.category)
           existing == Find(acc, cat) IN
       chartData_Overwrite(
         IF existing # 0
         THEN [acc EXCEPT ![existing].value = Abs(curr.amount)]
         ELSE Append(acc, [name |-> cat, value |-> Abs(curr.amount)]),
         Tail(s))

\* the reducer of SpendingChart's data, over the expenses left to fold
RECURSIVE chartData(_, _)
chartData(acc, s) ==
  IF s = <<>> THEN acc
  ELSE LET curr == Head(s)
           cat == OrOther(curr.category)
           existing == Find(acc, cat) IN
       chartData(
         IF existing # 0
         THEN [acc EXCEPT ![existing].value = @ + Abs(curr.amount)]
         ELSE Append(acc, [name |-> cat, value |-> Abs(curr.amount)]),
         Tail(s))

RECURSIVE SumValues(_)
SumValues(d) ==
  IF d = <<>> THEN 0
  ELSE SumValues(SubSeq(d, 1, Len(d) - 1)) + d[Len(d)].value

SpendingChart(ts) ==
  LET data == chartData(<<>>, SelectSeq(ts, LAMBDA t : t.amount < 0)) IN
  [data |-> data,
   totalExpense |-> SumValues(data),
   chart |-> IF Len(data) = 0 THEN "null" ELSE "shown"]

\* nothing rendered yet
NoView == [rendered |-> FALSE, total |-> 0, income |-> 0, expense |-> 0,
           data |-> <<>>, totalExpense |-> 0, chart |-> "null"]

\* one render pass of App over the store's list: Balance, SpendingChart
\* and IncomeExpenses
Render ==
  /\ ~view.rendered
  /\ view' = [rendered |-> TRUE,
              total |-> Balance(transactions),
              income |-> IncomeExpenses(transactions).income,
              expense |-> IncomeExpenses(transactions).expense,
              data |-> SpendingChart(transactions).data,
              totalExpense |-> SpendingChart(transactions).totalExpense,
              chart |-> SpendingChart(transactions).chart]
  /\ UNCHANGED <<state, draft, calls, db, nextId, mounted, last>>

\* the store after a list response that delivered one of the lists
ViewInit ==
  /\ \E l \in ViewLists :
       /\ db = ViewRecords(l)
       /\ state = [initialState EXCEPT !.loading = FALSE,
                                       !.transactions = Objs(ViewRecords(l), 1)]
  /\ nextId = Len(db) + 1
  /\ draft = emptyDraft
  /\ calls = <<>>
  /\ mounted = TRUE
  /\ view = NoView
  /\ last = NoStep

ViewNext == Render

ViewSpec == ViewInit /\ [][ViewNext]_vars

Init ==
  /\ state = initialState
  /\ draft = emptyDraft
  /\ calls = <<>>
  /\ db \in InitialDbs
  /\ nextId = Len(db) + 1
  /\ mounted = FALSE
  /\ view = NoView
  /\ last = NoStep

Next ==
  \/ Mount
  \/ \E i \in 1..Len(transactions) : ClickDelete(i)
  \/ \E i \in 1..Len(transactions) : StartEdit(i)
  \/ CancelEdit
  \/ \E t \in Texts : setText(t)
  \/ \E a \in Amounts : setAmount(a)
  \/ \E c \in DraftCategories : setCategory(c)
  \/ OnSubmit
  \/ \E c \in 1..Len(calls) : ServerHandle(c)
  \/ \E c \in 1..Len(calls) : Resolve(c)
  \/ \E c \in 1..Len(calls), e \in Failures : Reject(c, e)

Spec == Init /\ [][Next]_vars

\* ---------------------------------------------------------------- steps
\* a step that issues an axios call
IssueStep == Len(calls') = Len(calls) + 1

\* a step in which an async function resumes after its await
SettleStep == last'.kind = "settle"
SuccessStep == SettleStep /\ last'.ok
FailureStep == SettleStep /\ ~last'.ok

\* ------------------------------------------------------------ properties
\* C1: no two entries of `transactions` have the same id, in every
\* reachable state, whatever the order in which calls are issued and their
\* responses arrive.
C1_UniqueIds ==
  \A i, j \in 1..Len(transactions) :
    i # j => transactions[i]._id # transactions[j]._id

\* C2: after the failure of any operation has been applied, `error` holds a
\* message: the response body's error field when there is one, a generic
\* fallback message otherwise; it is never null or undefined.
C2_ErrorIsMessage ==
  (last.kind = "settle" /\ ~last.ok) => error \notin {"null", Undefined}

\* C3: among the steps of a call, only the one that applies a successful
\* response changes `transactions` or `editing`: issuing a call changes
\* neither, applying a failure changes neither, `transactions` changes in no
\* other step at all, and `editing` otherwise changes only by SET_EDITING
\* (start edit, cancel edit), which issues no call.
C3_OnlyOnSuccess ==
  [][ /\ (IssueStep \/ FailureStep) =>
           (transactions' = transactions /\ editing' = editing)
      /\ transactions' # transactions => SuccessStep
      /\ editing' # editing =>
           (SuccessStep \/ last'.kind \in {"startEdit", "cancelEdit"}) ]_vars

\* C3's case: a failure was applied while the list and the edit slot were
\* both filled
C3_Witness ==
  /\ last.kind = "settle" /\ ~last.ok
  /\ transactions # <<>>
  /\ editing # Null

\* C4: applying a successful update response whose id is the id held in the
\* edit slot clears the slot and replaces the list entry of that id by the
\* response payload; every other entry and the order of the list stay.
C4_ReplaceEdited ==
  [][ (/\ SuccessStep
       /\ last'.op = "update"
       /\ EdId(editing) = calls[last'.cid].payload[1]._id) =>
      LET p == Obj(calls[last'.cid].payload[1], last'.cid) IN
      /\ editing' = Null
      /\ Len(transactions') = Len(transactions)
      /\ \A i \in 1..Len(transactions) :
           transactions'[i] = IF transactions[i]._id = p._id THEN p
                              ELSE transactions[i] ]_vars

\* C4's case: the update of the edited transaction was applied to a list
\* that holds it next to another entry
C4_Witness ==
  /\ last.kind = "settle" /\ last.op = "update" /\ last.ok
  /\ last.edId = last.id
  /\ ~last.absent
  /\ Len(transactions) >= 2
  /\ \E i \in 1..Len(transactions) :
       transactions[i]._id = last.id /\ transactions[i].ref = last.cid
  /\ editing = Null

\* C5: an id in `transactions` becomes absent only in the step that applies
\* a successful delete response for that id.
C5_OnlyRemoveDeletes ==
  [][ \A id \in Ids(transactions) \ Ids(transactions') :
        SuccessStep /\ last'.op = "remove" /\ last'.id = id ]_vars

\* C6: applying a successful update response whose id is in no entry of
\* `transactions` leaves the list as it is and clears the edit slot.
C6_ReplaceAbsent ==
  [][ (/\ SuccessStep
       /\ last'.op = "update"
       /\ calls[last'.cid].payload[1]._id \notin Ids(transactions)) =>
      (transactions' = transactions /\ editing' = Null) ]_vars

\* C6's case: the update response came after its transaction had left the
\* list, with the edit slot still filled
C6_Witness ==
  /\ last.kind = "settle" /\ last.op = "update" /\ last.ok
  /\ last.absent
  /\ last.edId # 0
  /\ editing = Null

\* C7: applying a successful delete response whose id is in no entry of
\* `transactions` leaves the list, the edit slot, the error slot and the
\* loading flag as they are.
C7_RemoveAbsent ==
  [][ (/\ SuccessStep
       /\ last'.op = "remove"
       /\ calls[last'.cid].id \notin Ids(transactions)) =>
      (/\ transactions' = transactions
       /\ editing' = editing
       /\ error' = error
       /\ loading' = loading) ]_vars

\* C7's case: a delete response for an id already gone was applied to a
\* list that is not empty
C7_Witness ==
  /\ last.kind = "settle" /\ last.op = "remove" /\ last.ok
  /\ last.absent
  /\ transactions # <<>>

\* C8: start edit issues no call and leaves the list alone; a cancel edit
\* that follows it ends with the edit slot null and the list as it was
\* before the start edit, and issues no call either.
C8_StartThenCancel ==
  [][ /\ last'.kind = "startEdit" =>
           (transactions' = transactions /\ calls' = calls)
      /\ (last.kind = "startEdit" /\ last'.kind = "cancelEdit") =>
           (/\ editing' = Null
            /\ transactions' = last.snap
            /\ calls' = calls) ]_vars

\* C8's case: a cancel edit right after a start edit, on a list with entries
C8_Witness ==
  /\ last.kind = "cancelEdit" /\ last.after = "startEdit"
  /\ last.snap # <<>>
  /\ editing = Null

\* the Store transition that is the success transition of an operation
SuccessType(op) ==
  CASE op = "list" -> "GET_TRANSACTIONS"
    [] op = "create" -> "ADD_TRANSACTION"
    [] op = "remove" -> "DELETE_TRANSACTION"
    [] op = "update" -> "UPDATE_TRANSACTION"

\* every axios promise settles: with the response, or with an error
FairSpec ==
  Spec /\ \A c \in 1..MaxCalls :
            WF_vars(Resolve(c) \/ \E e \in Failures : Reject(c, e))

\* C9: every issued call is settled in the end, and settling it applies
\* exactly one Store transition: the operation's success transition when it
\* succeeded, TRANSACTION_ERROR when it failed; before that it applies none.
C9_ExactlyOneTransition ==
  /\ [](\A c \in 1..Len(calls) :
          calls[c].dispatched = IF calls[c].stage = "done" THEN 1 ELSE 0)
  /\ [](last.kind = "settle" =>
          last.types = << IF last.ok THEN SuccessType(last.op)
                          ELSE "TRANSACTION_ERROR" >>)
  /\ \A c \in 1..MaxCalls :
       [](Len(calls) >= c => <>(Len(calls) >= c /\ calls[c].stage = "done"))

\* C9's case: all the calls the bound allows were issued and settled, one of
\* them with a failure
C9_Witness ==
  /\ Len(calls) = MaxCalls
  /\ \A c \in 1..Len(calls) : calls[c].stage = "done" /\ calls[c].dispatched = 1
  /\ error # "null"

\* C10: a submit issues exactly one call: create with the draft when the
\* edit slot is null, update with the draft and the id of the transaction in
\* the edit slot otherwise.
C10_SubmitRouting ==
  [][ last'.kind = "submit" =>
      LET n == calls'[Len(calls')]
          data == [text |-> draft.text, amount |-> ToNumber(draft.amount),
                   category |-> draft.category] IN
      /\ Len(calls') = Len(calls) + 1
      /\ SubSeq(calls', 1, Len(calls)) = calls
      /\ n.stage = "sent"
      /\ n.data = data
      /\ IF editing = Null
         THEN n.op = "create"
         ELSE n.op = "update" /\ n.id = editing[1]._id ]_vars

\* C10's case: a submit made while editing has just issued the update
C10_Witness ==
  /\ last.kind = "submit"
  /\ last.edId # 0
  /\ calls[last.cid].op = "update"
  /\ calls[last.cid].id = last.edId
  /\ calls[last.cid].stage = "sent"

\* ------------------------------------------------------------- loading
\* the initial list fetch (the mount effect's call, always call 1) has
\* settled
InitialFetchDone == Len(calls) >= 1 /\ calls[1].stage = "done"

\* C11: loading is true in every state before the initial list fetch
\* completes and false in every state after it has completed, with success
\* or with failure.
C11_LoadingUntilFetched == loading = ~InitialFetchDone

\* ------------------------------------------------------- derived views
\* C12: every expense whose category is missing or is not one of the seven
\* enumerated categories is grouped under "Other", so the names of the
\* breakdown's groups are a subset of the seven category ids; the stored
\* transactions keep their category.
C12_GroupsAreEnumerated ==
  view.rendered =>
    /\ {view.data[i].name : i \in 1..Len(view.data)} \subseteq CategoryIds
    /\ \A i \in 1..Len(transactions) :
         transactions[i].category = db[i].category

\* C13: the balance equals the income total minus the expense total, where
\* the income total sums the amounts above 0 and the expense total is the
\* absolute value of the sum of the amounts below 0; all three are 0 for
\* the empty list.
C13_BalanceIsIncomeMinusExpense ==
  view.rendered =>
    LET pos == {i \in 1..Len(transactions) : transactions[i].amount > 0}
        neg == {i \in 1..Len(transactions) : transactions[i].amount < 0} IN
    /\ view.total = view.income - view.expense
    /\ view.income >= 0 /\ view.expense >= 0
    /\ pos = {} => view.income = 0
    /\ neg = {} => view.expense = 0
    /\ pos # {} => view.income > 0
    /\ neg # {} => view.expense > 0
    /\ transactions = <<>> =>
         view.total = 0 /\ view.income = 0 /\ view.expense = 0

\* C13's case: a list with an income and two expenses has been rendered
C13_Witness ==
  /\ view.rendered
  /\ Len(transactions) = 3
  /\ \E i \in 1..3 : transactions[i].amount > 0
  /\ Cardinality({i \in 1..3 : transactions[i].amount < 0}) = 2
  /\ view.expense = ToFixed2(30)

\* C14: the values of the breakdown's groups sum to the expense total, and
\* the breakdown is empty exactly when no transaction has an amount below 0.
C14_BreakdownSumsToExpense ==
  view.rendered =>
    /\ ToFixed2(SumValues(view.data)) = view.expense
    /\ ToFixed2(view.totalExpense) = view.expense
    /\ view.data = <<>> <=>
         ~ \E i \in 1..Len(transactions) : transactions[i].amount < 0
    /\ view.chart = "null" <=> view.data = <<>>

\* C14's case: two expenses of one category were folded into one group,
\* beside a group of another category
C14_Witness ==
  /\ view.rendered
  /\ Len(view.data) = 2
  /\ Cardinality({i \in 1..Len(transactions) : transactions[i].amount < 0}) = 3

\* ------------------------------------------------- overlapping updates
\* C15: when two update calls for one id are in flight together and both
\* succeed, the list entry of that id ends as the payload of the response
\* applied last, whatever the order of issue and of handling by the server:
\* every successful update response, whichever calls are in flight or were
\* applied before it, puts its own payload in every list entry of its id.
C15_LastAppliedWins ==
  [][ (SuccessStep /\ last'.op = "update") =>
      LET p == Obj(calls[last'.cid].payload[1], last'.cid) IN
      \A i \in 1..Len(transactions') :
        transactions'[i]._id = last'.id => transactions'[i] = p ]_vars

\* C15's case: the list and two updates of one id all succeeded, and the
\* update applied last is the one the server handled first: the entry holds
\* its payload and no longer what the server stores
C15_Witness ==
  /\ last.kind = "settle" /\ last.op = "update" /\ last.ok
  /\ Len(calls) = 3
  /\ \A c \in 1..Len(calls) : calls[c].stage = "done"
  /\ error = "null"
  /\ \E i \in 1..Len(transactions) :
       /\ transactions[i]._id = last.id
       /\ transactions[i].ref = last.cid
       /\ transactions[i].category # Lookup(db, last.id).category

\* ------------------------------------------------------ leaving the slot
\* C16: the edit slot goes from a transaction to null only by cancel edit
\* or by applying a successful update response for the id it holds; a
\* successful update response for another id leaves it as it is.
C16_OnlyMatchingUpdateClears ==
  [][ (editing # Null /\ editing' = Null) =>
      \/ last'.kind = "cancelEdit"
      \/ SuccessStep /\ last'.op = "update" /\ last'.id = EdId(editing) ]_vars

\* C16, amended: the edit slot goes from a transaction to null only by
\* cancel edit or by applying a successful update response, and every
\* successful update response leaves it null, whatever id the response is
\* for and whatever the slot held.
C16_AnyUpdateClears ==
  [][ /\ (editing # Null /\ editing' = Null) =>
           \/ last'.kind = "cancelEdit"
           \/ SuccessStep /\ last'.op = "update"
      /\ (SuccessStep /\ last'.op = "update") => editing' = Null ]_vars

\* C16's case: the update of one transaction was applied while the slot
\* held another one, and the slot is null
C16_Witness ==
  /\ last.kind = "settle" /\ last.op = "update" /\ last.ok
  /\ last.edId # 0
  /\ last.edId # last.id
  /\ editing = Null

\* ------------------------------------------------------ the draft buffer
\* what the form shows for a transaction: its text and amount, and its
\* category or "Other" when it has none
DraftOf(tx) ==
  [text |-> tx.text, amount |-> Some(tx.amount),
   category |-> IF tx.category = Undefined THEN "Other" ELSE tx.category]

\* a start edit from an empty slot or from a slot holding another transaction
StartOtherEdit ==
  /\ last'.kind = "startEdit"
  /\ EdId(editing) # EdId(editing')

\* C17: once the successful response of a submit's call (create or update)
\* has been applied, the draft buffer holds its empty defaults; a start edit
\* on a transaction, from an empty slot or from a slot holding another
\* transaction, sets the draft buffer to that transaction's text, amount and
\* category ("Other" when missing).
C17_DraftEmptyAfterResponse ==
  [][ /\ (SuccessStep /\ last'.op \in {"create", "update"}) =>
           draft' = emptyDraft
      /\ StartOtherEdit => draft' = DraftOf(editing'[1]) ]_vars

\* C17, amended: the submit step itself sets the draft buffer to its empty
\* defaults; applying a successful create response leaves the buffer as it
\* is, applying a successful update response empties it again exactly when
\* the edit slot was filled; a start edit sets it as stated.
C17_DraftEmptyAtSubmit ==
  [][ /\ last'.kind = "submit" => draft' = emptyDraft
      /\ (SuccessStep /\ last'.op = "create") => draft' = draft
      /\ (SuccessStep /\ last'.op = "update") =>
           draft' = IF editing # Null THEN emptyDraft ELSE draft
      /\ StartOtherEdit => draft' = DraftOf(editing'[1]) ]_vars

\* C17's case: text was typed while a create was in flight, and it is
\* still in the buffer after the create's response was applied
C17_Witness ==
  /\ last.kind = "settle" /\ last.op = "create" /\ last.ok
  /\ \E i \in 1..Len(transactions) : transactions[i].ref = last.cid
  /\ draft.text # ""

\* ------------------------------------------- deleting what is edited
\* C19: applying a successful delete response for the transaction held in
\* the edit slot removes it from the list and leaves the slot unchanged, so
\* that a submit that follows issues an update for the id that is now
\* absent, not a create.
C19_DeleteKeepsEditing ==
  [][ /\ (/\ SuccessStep /\ last'.op = "remove"
          /\ editing # Null /\ EdId(editing) = last'.id) =>
           /\ editing' = editing
           /\ last'.id \notin Ids(transactions')
      /\ (/\ last.kind = "settle" /\ last.ok /\ last.op = "remove"
          /\ last.edId # 0 /\ last.edId = last.id
          /\ last'.kind = "submit") =>
           /\ calls'[Len(calls')].op = "update"
           /\ calls'[Len(calls')].id = last.id
           /\ last.id \notin Ids(transactions) ]_vars

\* C19's case: the submit that followed the delete of the edited
\* transaction has issued an update for the absent id
C19_Witness ==
  /\ last.kind = "submit" /\ last.after = "removeEdited"
  /\ last.edId # 0
  /\ last.edId \notin Ids(transactions)
  /\ calls[last.cid].op = "update"
  /\ calls[last.cid].id = last.edId
  /\ EdId(editing) = last.edId

\* ------------------------------------------------------ one call at a time
\* no call is in flight
NoneInFlight == \A c \in 1..Len(calls) : calls[c].stage = "done"

\* the session in which the user waits for each response before issuing the
\* next call, and in which every call succeeds
SerialNext ==
  \/ Mount
  \/ NoneInFlight /\ \E i \in 1..Len(transactions) : ClickDelete(i)
  \/ \E i \in 1..Len(transactions) : StartEdit(i)
  \/ CancelEdit
  \/ \E t \in Texts : setText(t)
  \/ \E a \in Amounts : setAmount(a)
  \/ \E c \in DraftCategories : setCategory(c)
  \/ NoneInFlight /\ OnSubmit
  \/ \E c \in 1..Len(calls) : ServerHandle(c)
  \/ \E c \in 1..Len(calls) : Resolve(c)

SerialSpec == Init /\ [][SerialNext]_vars

\* the list as the client holds it, without the identity of its objects
Fields(objs) == [i \in 1..Len(objs) |-> Record(objs[i]._id, objs[i])]

\* C20: when calls are issued one at a time, starting with the initial
\* list, and every call succeeds, then after each response has been applied
\* `transactions` is the server's collection: the same ids with the same
\* field values, in the server's insertion order.
C20_ClientEqualsServer ==
  (InitialFetchDone /\ NoneInFlight) => Fields(transactions) = db

\* C20's case: after the list, a create and a third call, each applied before
\* the next was issued, client and server hold the same three or more
\* transactions
C20_Witness ==
  /\ Len(calls) = 3
  /\ NoneInFlight
  /\ last.kind = "settle" /\ last.ok
  /\ Len(transactions) >= 3
  /\ Fields(transactions) = db

====
